---- MODULE Spec2Model ----
(***************************************************************************)
(* MpqViewer: resolution of resource paths against an ordered chain of MPQ *)
(* archives and extraction of the resolved files into _dump_/.             *)
(*                                                                         *)
(* Strings are sequences of one-character strings.  The model follows the  *)
(* last revision of the program in main.go (the package that starts at     *)
(* line 255); path handling is that of a build whose path separator is     *)
(* the forward slash.                                                      *)
(***************************************************************************)
EXTENDS Integers, Sequences, FiniteSets, TLC

VARIABLES
    pc,            \* position of main: "start", "denorm", "extract", "done", "fatal", "crashed"
    archives,      \* the opened archives, in priority order (read-only)
    all,           \* flag -a
    embedded,      \* flag -embedded
    rawFilePaths,  \* flag -files
    listfilePath,  \* flag -l
    lower,         \* flag -lower
    filePaths,     \* main's filePaths slice
    idx,           \* position of extractAllFiles' loop in filePaths
    ran,           \* discovery strategies that have run
    listLines,     \* lines scanned by the listfile strategy that ran
    kept,          \* per kept listfile entry, the archive whose FileExists kept it
    calls,         \* operations invoked on the collaborators, in order
    fsops,         \* MkdirAll / WriteFile operations, in order
    outcomes,      \* result of extractFile for each processed position
    exit,          \* process exit status, -1 while running
    cpc,           \* path codec: "in", "native", "canon", or "off"
    cp,            \* path codec: the input path
    cn,            \* path codec: denormalize(cp)
    cc             \* path codec: normalize(cn)

vars == <<pc, archives, all, embedded, rawFilePaths, listfilePath, lower,
          filePaths, idx, ran, listLines, kept, calls, fsops, outcomes, exit,
          cpc, cp, cn, cc>>

mainVars == <<pc, archives, all, embedded, rawFilePaths, listfilePath, lower,
              filePaths, idx, ran, listLines, kept, calls, fsops, outcomes, exit>>

codecVars == <<cpc, cp, cn, cc>>

(***************************************************************************)
(* Bounds                                                                  *)
(***************************************************************************)
MaxLen == 3        \* longest path given to the path codec
MaxPaths == 2      \* longest list of paths (explicit list, listfile)
MaxArchives == 2   \* longest archive chain

(***************************************************************************)
(* Strings                                                                 *)
(***************************************************************************)
Upper == <<"A", "B", "C", "D">>
Lower == <<"a", "b", "c", "d">>

Alphabet == {"/", "\\", "a", "A"}

Strings(n) == UNION {[1..k -> Alphabet] : k \in 0..n}

SeqsUpTo(S, n) == UNION {[1..k -> S] : k \in 0..n}

ToLowerChar(c) ==
    IF \E k \in 1..Len(Upper) : Upper[k] = c
    THEN Lower[CHOOSE k \in 1..Len(Upper) : Upper[k] = c]
    ELSE c

ToLower(s) == [k \in 1..Len(s) |-> ToLowerChar(s[k])]

\* strings.ReplaceAll for one-character old and new
ReplaceAll(s, old, new) == [k \in 1..Len(s) |-> IF s[k] = old THEN new ELSE s[k]]

HasPrefix(s, c) == Len(s) > 0 /\ s[1] = c

IsPrefixOf(pre, s) == Len(pre) <= Len(s) /\ SubSeq(s, 1, Len(pre)) = pre

RECURSIVE SplitAcc(_, _, _, _)
SplitAcc(s, sep, cur, acc) ==
    IF s = <<>> THEN Append(acc, cur)
    ELSE IF Head(s) = sep THEN SplitAcc(Tail(s), sep, <<>>, Append(acc, cur))
    ELSE SplitAcc(Tail(s), sep, Append(cur, Head(s)), acc)

\* strings.Split for a one-character separator
Split(s, sep) == SplitAcc(s, sep, <<>>, <<>>)

RECURSIVE JoinSep(_, _)
JoinSep(elems, sep) ==
    IF elems = <<>> THEN <<>>
    ELSE IF Len(elems) = 1 THEN elems[1]
    ELSE elems[1] \o <<sep>> \o JoinSep(Tail(elems), sep)

LastIndexOf(s, c) ==
    IF \E k \in 1..Len(s) : s[k] = c
    THEN CHOOSE k \in 1..Len(s) : s[k] = c /\ \A j \in (k+1)..Len(s) : s[j] # c
    ELSE 0

(***************************************************************************)
(* Path codec                                                              *)
(***************************************************************************)
normalize(filePath) == ReplaceAll(filePath, "\\", "/")

denormalizeNoStrip(filePath) == ReplaceAll(filePath, "/", "\\")

denormalize(filePath) ==
    LET r == ReplaceAll(filePath, "/", "\\")
    IN  IF HasPrefix(r, "\\") THEN Tail(r) ELSE r

(***************************************************************************)
(* path/filepath and pathutil                                              *)
(***************************************************************************)
RECURSIVE CleanComps(_, _, _)
CleanComps(comps, out, rooted) ==
    IF comps = <<>> THEN out
    ELSE LET c == Head(comps) IN
         IF c = <<>> \/ c = <<".">> THEN CleanComps(Tail(comps), out, rooted)
         ELSE IF c = <<".", ".">> THEN
              IF Len(out) > 0 /\ out[Len(out)] # <<".", ".">>
              THEN CleanComps(Tail(comps), SubSeq(out, 1, Len(out) - 1), rooted)
              ELSE IF rooted THEN CleanComps(Tail(comps), out, rooted)
              ELSE CleanComps(Tail(comps), Append(out, c), rooted)
         ELSE CleanComps(Tail(comps), Append(out, c), rooted)

\* filepath.Clean
Clean(path) ==
    LET rooted == HasPrefix(path, "/")
        body   == JoinSep(CleanComps(Split(path, "/"), <<>>, rooted), "/")
    IN  IF rooted THEN <<"/">> \o body
        ELSE IF body = <<>> THEN <<".">> ELSE body

\* filepath.Join
Join(elems) ==
    LET nonEmpty == SelectSeq(elems, LAMBDA e : e # <<>>)
    IN  IF nonEmpty = <<>> THEN <<>> ELSE Clean(JoinSep(nonEmpty, "/"))

\* filepath.Dir
Dir(path) == Clean(SubSeq(path, 1, LastIndexOf(path, "/")))

\* filepath.Base, for a path without trailing separators
Base(path) ==
    IF path = <<>> THEN <<".">>
    ELSE SubSeq(path, LastIndexOf(path, "/") + 1, Len(path))

\* pathutil.TrimExt
TrimExt(path) ==
    LET dot == LastIndexOf(path, ".")
    IN  IF dot > LastIndexOf(path, "/") THEN SubSeq(path, 1, dot - 1) ELSE path

\* pathutil.FileName
FileName(path) == TrimExt(Base(path))

DumpRoot == <<"_", "d", "u", "m", "p", "_">>

(***************************************************************************)
(* The archive collaborator (d2mpq.MPQ): a file name and the names it      *)
(* holds; lookups compare names exactly.                                   *)
(***************************************************************************)
KeyOrder == << <<"a">>, <<"A">> >>

\* a name with parent-directory segments, as an archive may hold it
TraversalName == <<".", ".", "\\", ".", ".", "\\", "a">>

KeyPool == {KeyOrder[k] : k \in 1..Len(KeyOrder)}

ArchiveFileName(h) == <<Upper[h], ".", "m">>

FileExists(archive, filePath) == filePath \in archive.files

\* the bytes archive h holds for a name
Content(h, filePath) == <<h, filePath>>

\* GetFileList
FileList(archive) ==
    SelectSeq(KeyOrder \o <<TraversalName>>, LAMBDA k : k \in archive.files)

Call(op, h, key, res, pos) == [op |-> op, h |-> h, key |-> key, res |-> res, pos |-> pos]

FsOp(op, path, data, ok, pos) == [op |-> op, path |-> path, data |-> data, ok |-> ok, pos |-> pos]

ReadResults == {"ok", "err", "panic"}

(***************************************************************************)
(* readFile, archiveReadFile, extractFile                                  *)
(***************************************************************************)
\* archiveReadFile: the cause of the error returned for a result of
\* archive.ReadFile ("nil" for none)
archiveReadFileAllErrFileRead(readRes) ==
    IF readRes = "ok" THEN "nil" ELSE "ErrFileRead"

archiveReadFile(readRes) ==
    CASE readRes = "ok"    -> "nil"
      [] readRes = "err"   -> "ReadFailure"
      [] readRes = "panic" -> "ErrFileRead"

RECURSIVE resolveLastFrom(_, _, _)
resolveLastFrom(archs, key, h) ==
    IF h < 1 THEN 0
    ELSE IF FileExists(archs[h], key) THEN h
    ELSE resolveLastFrom(archs, key, h - 1)

resolveLast(archs, key) == resolveLastFrom(archs, key, Len(archs))

RECURSIVE resolveFrom(_, _, _)
resolveFrom(archs, key, h) ==
    IF h > Len(archs) THEN 0
    ELSE IF FileExists(archs[h], key) THEN h
    ELSE resolveFrom(archs, key, h + 1)

\* the loop of readFile: the first archive that reports the key, 0 for none
resolve(archs, key) == resolveFrom(archs, key, 1)

\* readFile: status "panic" for the index out of range at filePath[0]
readFile(archs, filePath, readRes, pos) ==
    LET r == ReplaceAll(ToLower(filePath), "/", "\\") IN
    IF Len(r) = 0
    THEN [status |-> "panic", cause |-> "nil", data |-> <<>>, h |-> 0, calls |-> <<>>]
    ELSE
      LET key   == IF r[1] = "\\" THEN Tail(r) ELSE r
          h     == resolve(archs, key)
          last  == IF h = 0 THEN Len(archs) ELSE h
          probe == [k \in 1..last |-> Call("FileExists", k, key, k = h, pos)]
      IN  IF h = 0
          THEN [status |-> "ret", cause |-> "ErrNotFound", data |-> <<>>, h |-> 0,
                calls |-> probe]
          ELSE LET cause == archiveReadFile(readRes) IN
               [status |-> "ret", cause |-> cause,
                data   |-> IF cause = "nil" THEN Content(h, key) ELSE <<>>,
                h      |-> IF cause = "nil" THEN h ELSE 0,
                calls  |-> Append(probe, Call("ReadFile", h, key, readRes, pos))]

extractFile(archs, filePath, low, readRes, mkdirOk, writeOk, pos) ==
    LET rd == readFile(archs, filePath, readRes, pos) IN
    IF rd.status = "panic" \/ rd.cause # "nil"
    THEN [status |-> rd.status, cause |-> rd.cause, calls |-> rd.calls, fsops |-> <<>>]
    ELSE
      LET archiveDir == FileName(archs[rd.h].FileName)
          joined     == normalize(Join(<<DumpRoot, archiveDir, filePath>>))
          dstPath    == IF low THEN ToLower(joined) ELSE joined
          dir        == Dir(dstPath)
          mk         == FsOp("MkdirAll", dir, <<>>, mkdirOk, pos)
          wr         == FsOp("WriteFile", dstPath, rd.data, writeOk, pos)
      IN  IF ~mkdirOk
          THEN [status |-> "ret", cause |-> "MkdirAll", calls |-> rd.calls, fsops |-> <<mk>>]
          ELSE IF ~writeOk
          THEN [status |-> "ret", cause |-> "WriteFile", calls |-> rd.calls, fsops |-> <<mk, wr>>]
          ELSE [status |-> "ret", cause |-> "nil", calls |-> rd.calls, fsops |-> <<mk, wr>>]

\* the switch of extractAllFiles: the outcome recorded for an error cause
outcomeOfAlwaysContinue(cause) ==
    CASE cause = "nil"         -> "Extracted"
      [] cause = "ErrNotFound" -> "NotFound"
      [] OTHER                 -> "ReadError"

outcomeOf(cause) ==
    CASE cause = "nil"         -> "Extracted"
      [] cause = "ErrNotFound" -> "NotFound"
      [] cause = "ErrFileRead" -> "ReadError"
      [] OTHER                 -> "Fatal"

(***************************************************************************)
(* Discovery strategies                                                    *)
(***************************************************************************)
RECURSIVE holderFrom(_, _, _)
holderFrom(archs, filePath, h) ==
    IF h > Len(archs) THEN 0
    ELSE IF FileExists(archs[h], filePath) THEN h
    ELSE holderFrom(archs, filePath, h + 1)

\* the inner loop of the listfile strategies: the archives for which the
\* line is appended to the result
keepLineNoBreak(archs, filePath) ==
    SelectSeq([h \in 1..Len(archs) |-> h], LAMBDA h : FileExists(archs[h], filePath))

keepLine(archs, filePath) ==
    LET h == holderFrom(archs, filePath, 1)
    IN  IF h = 0 THEN <<>> ELSE <<h>>

RECURSIVE scanLines(_, _, _, _)
scanLines(archs, lines, n, acc) ==
    IF n > Len(lines) THEN acc
    ELSE
      LET filePath == denormalize(lines[n])
          owners   == keepLine(archs, filePath)
          last     == IF owners = <<>> THEN Len(archs) ELSE owners[1]
          probe    == [h \in 1..last |->
                         Call("FileExists", h, filePath, FileExists(archs[h], filePath), 0)]
      IN  scanLines(archs, lines, n + 1,
                    [paths  |-> acc.paths \o [k \in 1..Len(owners) |-> filePath],
                     owners |-> acc.owners \o owners,
                     calls  |-> acc.calls \o probe])

EmptyScan == [paths |-> <<>>, owners |-> <<>>, calls |-> <<>>]

getFilePathsFromListfile(archs, lines) == scanLines(archs, lines, 1, EmptyScan)

getFilePathsFromBundledListfile(archs, data) == scanLines(archs, data, 1, EmptyScan)

\* getFilePathsFromEmbeddedListfile; GetFileList of archive failAt fails
\* (0: none fails)
getFilePathsFromEmbeddedListfile(archs, failAt) ==
    LET last == IF failAt = 0 THEN Len(archs) ELSE failAt
        RECURSIVE concat(_)
        concat(h) == IF h > Len(archs) THEN <<>> ELSE FileList(archs[h]) \o concat(h + 1)
    IN  [err   |-> failAt # 0,
         paths |-> IF failAt # 0 THEN <<>> ELSE concat(1),
         calls |-> [h \in 1..last |->
                      Call("GetFileList", h, <<>>, IF h = failAt THEN "err" ELSE "ok", 0)]]

\* the lines of the bundled listfile
rawListfile == << <<"A">>, <<"/", "a">>, <<"\\">> >>

\* main: which discovery strategy the flags select
selectStrategyListfileFirst(raw, a, emb, lfp) ==
    IF Len(raw) > 0 /\ Len(Split(raw, ",")) # 0 THEN "explicit"
    ELSE IF ~a THEN "none"
    ELSE IF Len(lfp) > 0 THEN "external"
    ELSE IF emb THEN "embedded"
    ELSE "bundled"

selectStrategy(raw, a, emb, lfp) ==
    IF Len(raw) > 0 /\ Len(Split(raw, ",")) # 0 THEN "explicit"
    ELSE IF ~a THEN "none"
    ELSE IF emb THEN "embedded"
    ELSE IF Len(lfp) > 0 THEN "external"
    ELSE "bundled"

(***************************************************************************)
(* Inputs                                                                  *)
(***************************************************************************)
InputPaths == {<<"/">>, <<"a">>, <<"/", "A">>}

PathLists == SeqsUpTo(InputPaths, MaxPaths)

RawFileLists == {JoinSep(l, ",") : l \in PathLists}

ListfilePaths == {<<>>, <<"l">>}

\* an archive holds no name or one name of the pool
ArchiveContents == {{}} \cup {{k} : k \in KeyPool}

ArchiveChains ==
    UNION {{[h \in 1..n |-> [FileName |-> ArchiveFileName(h), files |-> f[h]]] :
               f \in [1..n -> ArchiveContents]} : n \in 1..MaxArchives}

(***************************************************************************)
(* main                                                                    *)
(***************************************************************************)
Init ==
    /\ pc = "start"
    /\ archives \in ArchiveChains
    /\ all \in BOOLEAN
    /\ embedded \in BOOLEAN
    /\ rawFilePaths \in RawFileLists
    /\ listfilePath \in ListfilePaths
    /\ lower \in BOOLEAN
    /\ filePaths = <<>>
    /\ idx = 0
    /\ ran = {}
    /\ listLines = <<>>
    /\ kept = <<>>
    /\ calls = <<>>
    /\ fsops = <<>>
    /\ outcomes = <<>>
    /\ exit = -1
    /\ cpc = "off"
    /\ cp = <<>>
    /\ cn = <<>>
    /\ cc = <<>>

Selected == selectStrategy(rawFilePaths, all, embedded, listfilePath)

Fatal ==
    /\ pc' = "fatal"
    /\ exit' = 1

ExplicitList ==
    /\ pc = "start"
    /\ Selected = "explicit"
    /\ filePaths' = Split(rawFilePaths, ",")
    /\ ran' = ran \cup {"explicit"}
    /\ pc' = "denorm"
    /\ UNCHANGED <<archives, all, embedded, rawFilePaths, listfilePath, lower, idx,
                   listLines, kept, calls, fsops, outcomes, exit, codecVars>>

NoFilesSpecified ==
    /\ pc = "start"
    /\ Selected = "none"
    /\ Fatal
    /\ UNCHANGED <<archives, all, embedded, rawFilePaths, listfilePath, lower, filePaths,
                   idx, ran, listLines, kept, calls, fsops, outcomes, codecVars>>

EmbeddedListfile ==
    /\ pc = "start"
    /\ Selected = "embedded"
    /\ \E failAt \in 0..Len(archives) :
         LET r == getFilePathsFromEmbeddedListfile(archives, failAt) IN
         /\ calls' = calls \o r.calls
         /\ IF r.err
            THEN Fatal /\ UNCHANGED filePaths
            ELSE filePaths' = r.paths /\ pc' = "denorm" /\ UNCHANGED exit
    /\ ran' = ran \cup {"embedded"}
    /\ UNCHANGED <<archives, all, embedded, rawFilePaths, listfilePath, lower, idx,
                   listLines, kept, fsops, outcomes, codecVars>>

ExternalListfile ==
    /\ pc = "start"
    /\ Selected = "external"
    /\ ran' = ran \cup {"external"}
    /\ \/ /\ calls' = Append(calls, Call("ReadListfile", 0, listfilePath, "err", 0))
          /\ Fatal
          /\ UNCHANGED <<filePaths, listLines, kept>>
       \/ \E lines \in PathLists :
            LET r == getFilePathsFromListfile(archives, lines) IN
            /\ calls' = Append(calls, Call("ReadListfile", 0, listfilePath, "ok", 0)) \o r.calls
            /\ listLines' = lines
            /\ filePaths' = r.paths
            /\ kept' = r.owners
            /\ pc' = "denorm"
            /\ UNCHANGED exit
    /\ UNCHANGED <<archives, all, embedded, rawFilePaths, listfilePath, lower, idx,
                   fsops, outcomes, codecVars>>

BundledListfile ==
    /\ pc = "start"
    /\ Selected = "bundled"
    /\ ran' = ran \cup {"bundled"}
    /\ LET r == getFilePathsFromBundledListfile(archives, rawListfile) IN
       /\ calls' = calls \o r.calls
       /\ listLines' = rawListfile
       /\ filePaths' = r.paths
       /\ kept' = r.owners
    /\ pc' = "denorm"
    /\ UNCHANGED <<archives, all, embedded, rawFilePaths, listfilePath, lower, idx,
                   fsops, outcomes, exit, codecVars>>

\* main, "De-normalize file paths"
DenormalizePaths ==
    /\ pc = "denorm"
    /\ filePaths' = [k \in 1..Len(filePaths) |-> denormalize(filePaths[k])]
    /\ idx' = 1
    /\ pc' = "extract"
    /\ UNCHANGED <<archives, all, embedded, rawFilePaths, listfilePath, lower, ran,
                   listLines, kept, calls, fsops, outcomes, exit, codecVars>>

\* what the collaborators do during one extractFile: the result of
\* archive.ReadFile and, when the read succeeds, of MkdirAll and WriteFile
Environments ==
    {e \in [readRes : ReadResults, mkdirOk : BOOLEAN, writeOk : BOOLEAN] :
        /\ e.readRes # "ok" => e.mkdirOk /\ e.writeOk
        /\ ~e.mkdirOk => e.writeOk}

\* one iteration of the loop of extractAllFiles
ExtractAllFilesStep ==
    /\ pc = "extract"
    /\ idx <= Len(filePaths)
    /\ \E env \in Environments :
         LET r == extractFile(archives, filePaths[idx], lower,
                              env.readRes, env.mkdirOk, env.writeOk, idx) IN
         /\ calls' = calls \o r.calls
         /\ fsops' = fsops \o r.fsops
         /\ IF r.status = "panic"
            THEN /\ pc' = "crashed"
                 /\ exit' = 2
                 /\ UNCHANGED <<outcomes, idx>>
            ELSE /\ outcomes' = Append(outcomes, outcomeOf(r.cause))
                 /\ IF outcomeOf(r.cause) = "Fatal"
                    THEN Fatal /\ UNCHANGED idx
                    ELSE idx' = idx + 1 /\ UNCHANGED <<pc, exit>>
    /\ UNCHANGED <<archives, all, embedded, rawFilePaths, listfilePath, lower, filePaths,
                   ran, listLines, kept, codecVars>>

\* extractAllFiles returns nil and main returns
ExtractAllFilesReturn ==
    /\ pc = "extract"
    /\ idx > Len(filePaths)
    /\ pc' = "done"
    /\ exit' = 0
    /\ UNCHANGED <<archives, all, embedded, rawFilePaths, listfilePath, lower, filePaths,
                   idx, ran, listLines, kept, calls, fsops, outcomes, codecVars>>

Next ==
    \/ ExplicitList
    \/ NoFilesSpecified
    \/ EmbeddedListfile
    \/ ExternalListfile
    \/ BundledListfile
    \/ DenormalizePaths
    \/ ExtractAllFilesStep
    \/ ExtractAllFilesReturn

Spec == Init /\ [][Next]_vars

(***************************************************************************)
(* The path codec on its own                                               *)
(***************************************************************************)
CodecInit ==
    /\ cpc = "in"
    /\ cp \in Strings(MaxLen)
    /\ cn = <<>>
    /\ cc = <<>>
    /\ pc = "off"
    /\ archives = <<>>
    /\ all = FALSE
    /\ embedded = FALSE
    /\ rawFilePaths = <<>>
    /\ listfilePath = <<>>
    /\ lower = FALSE
    /\ filePaths = <<>>
    /\ idx = 0
    /\ ran = {}
    /\ listLines = <<>>
    /\ kept = <<>>
    /\ calls = <<>>
    /\ fsops = <<>>
    /\ outcomes = <<>>
    /\ exit = -1

ToNative ==
    /\ cpc = "in"
    /\ cn' = denormalize(cp)
    /\ cpc' = "native"
    /\ UNCHANGED <<cp, cc, mainVars>>

ToCanonical ==
    /\ cpc = "native"
    /\ cc' = normalize(cn)
    /\ cpc' = "canon"
    /\ UNCHANGED <<cp, cn, mainVars>>

CodecNext == ToNative \/ ToCanonical

CodecSpec == CodecInit /\ [][CodecNext]_vars

(***************************************************************************)
(* Properties                                                              *)
(***************************************************************************)
Range(q) == {q[k] : k \in 1..Len(q)}

StripLeading(s, c) == IF Len(s) > 0 /\ s[1] = c THEN SubSeq(s, 2, Len(s)) ELSE s

Holders(key) == {h \in 1..Len(archives) : key \in archives[h].files}

LowestHolder(key) ==
    IF Holders(key) = {} THEN 0
    ELSE CHOOSE h \in Holders(key) : \A j \in Holders(key) : h <= j

DisplayName(h) == <<Upper[h]>>

DumpPrefix(h) ==
    LET pre == DumpRoot \o <<"/">> \o DisplayName(h) \o <<"/">>
    IN  IF lower THEN ToLower(pre) ELSE pre

ReadCalls == {c \in Range(calls) : c.op = "ReadFile"}

\* C1: every read goes to the lowest-index archive that holds the key, the
\* bytes written for a position are that archive's bytes and are written
\* under _dump_/<its display name>/, an archive of higher index holding the
\* same key is never read for it, and the same key always resolves to the
\* same archive.
C1_PriorityExtraction ==
    /\ \A c \in ReadCalls :
         /\ c.h = LowestHolder(c.key)
         /\ \A d \in ReadCalls : d.key = c.key => d.h = c.h
    /\ \A f \in Range(fsops) :
         f.op = "WriteFile" =>
           \E c \in ReadCalls :
             /\ c.pos = f.pos
             /\ f.data = Content(LowestHolder(c.key), c.key)
             /\ IsPrefixOf(DumpPrefix(LowestHolder(c.key)), f.path)

C1_Witness ==
    \E f \in Range(fsops) :
      /\ f.op = "WriteFile"
      /\ f.ok
      /\ Cardinality(Holders(f.data[2])) >= 2
      /\ f.data[1] = 1

FsFailure == \E f \in Range(fsops) : ~f.ok

Terminated == pc \in {"done", "fatal", "crashed"}

\* C2: once extraction has started, a run in which no directory creation
\* and no file write failed attempts every path and returns success (exit
\* status 0), however many paths were not found or could not be read.
C2_SkipsAndSucceeds ==
    (Terminated /\ idx >= 1 /\ ~FsFailure) =>
        /\ pc = "done"
        /\ exit = 0
        /\ Len(outcomes) = Len(filePaths)

\* C3: a path whose owning archive reported it and whose read then failed,
\* by an error value or by a panic, has the outcome ReadError (never Fatal).
C3_ReadFailureIsReadError ==
    \A c \in ReadCalls :
      c.res # "ok" => /\ Len(outcomes) >= c.pos
                      /\ outcomes[c.pos] = "ReadError"

\* C4: a failed MkdirAll or WriteFile at position i is the last thing the
\* run does: nothing at a later position is looked up, read or written, the
\* outcome of position i is Fatal and the process exits non-zero.
C4_FatalStopsBatch ==
    \A k \in 1..Len(fsops) :
      ~fsops[k].ok =>
        /\ pc = "fatal"
        /\ exit = 1
        /\ k = Len(fsops)
        /\ idx = fsops[k].pos
        /\ Len(outcomes) = fsops[k].pos
        /\ outcomes[fsops[k].pos] = "Fatal"
        /\ \A c \in Range(calls) : c.pos <= fsops[k].pos

C4_Witness ==
    \E f \in Range(fsops) : ~f.ok /\ f.pos < Len(filePaths) /\ pc = "fatal"

\* C5: preparing the lookup key never aborts the run: no path, the empty
\* one included, makes readFile index past the end of the string.
C5_KeyPreparationTotal == pc # "crashed"

IsNativeLower(key) ==
    /\ \A k \in 1..Len(key) : key[k] # "/"
    /\ ~HasPrefix(key, "\\")
    /\ ToLower(key) = key

\* C6: every key passed to FileExists or ReadFile, by the listfile filters
\* and by extraction, is backslash-separated, has no leading separator and
\* is lower-cased.
C6_KeysNativeLower ==
    \A c \in Range(calls) :
      c.op \in {"FileExists", "ReadFile"} => IsNativeLower(c.key)

NativeForm(p) == StripLeading(ReplaceAll(p, "/", "\\"), "\\")

ListfileRan == ran \cap {"external", "bundled"} # {}

\* C7: the list an external or bundled listfile strategy returns is the
\* listfile's lines in native form, in listfile order, restricted to those
\* that some archive holds, one entry per such line.
C7_ListfileFilter ==
    (ListfileRan /\ pc = "denorm") =>
        filePaths = SelectSeq([k \in 1..Len(listLines) |-> NativeForm(listLines[k])],
                              LAMBDA p : Holders(p) # {})

C7_Witness ==
    /\ "external" \in ran
    /\ pc = "denorm"
    /\ \E k \in 1..Len(listLines) : Cardinality(Holders(NativeForm(listLines[k]))) >= 2
    /\ \E k \in 1..Len(listLines) : Holders(NativeForm(listLines[k])) = {}

ExpectedStrategies ==
    IF rawFilePaths # <<>> THEN {"explicit"}
    ELSE IF ~all THEN {}
    ELSE IF embedded THEN {"embedded"}
    ELSE IF listfilePath # <<>> THEN {"external"}
    ELSE {"bundled"}

IsCanonical(p) == \A k \in 1..Len(p) : p[k] # "\\"

\* C9: for every canonical (forward-separated) path p,
\* normalize(denormalize(p)) is p without its leading separator, if it has
\* one.
C9_RoundTrip ==
    (cpc = "canon" /\ IsCanonical(cp)) => cc = StripLeading(cp, "/")

C9_Witness ==
    /\ cpc = "canon"
    /\ IsCanonical(cp)
    /\ Len(cp) = MaxLen
    /\ cp[1] = "/"
    /\ cp[2] = "A"
    /\ cp[3] = "/"

\* C10: a path kept by the external or bundled listfile filter is found
\* again at extraction, in the archive whose existence check kept it.
C10_KeptPathsResolve ==
    ListfileRan =>
      /\ \A k \in 1..Len(outcomes) : outcomes[k] # "NotFound"
      /\ \A c \in ReadCalls : c.h = kept[c.pos]

(***************************************************************************)
(* main on inputs with parent-directory segments                           *)
(***************************************************************************)
TraversalPaths ==
    {<<"a">>,
     <<".", ".", "/", ".", ".", "/", "a">>,
     <<".", ".", "\\", ".", ".", "\\", "a">>}

TraversalRawLists == {JoinSep(l, ",") : l \in SeqsUpTo(TraversalPaths, MaxPaths)}

TraversalContents == SUBSET {<<"a">>, TraversalName}

TraversalChains ==
    UNION {{[h \in 1..n |-> [FileName |-> ArchiveFileName(h), files |-> f[h]]] :
               f \in [1..n -> TraversalContents]} : n \in 1..MaxArchives}

TraversalInit ==
    /\ pc = "start"
    /\ archives \in TraversalChains
    /\ all \in BOOLEAN
    /\ embedded \in BOOLEAN
    /\ rawFilePaths \in TraversalRawLists
    /\ listfilePath \in ListfilePaths
    /\ lower \in BOOLEAN
    /\ filePaths = <<>>
    /\ idx = 0
    /\ ran = {}
    /\ listLines = <<>>
    /\ kept = <<>>
    /\ calls = <<>>
    /\ fsops = <<>>
    /\ outcomes = <<>>
    /\ exit = -1
    /\ cpc = "off"
    /\ cp = <<>>
    /\ cn = <<>>
    /\ cc = <<>>

TraversalSpec == TraversalInit /\ [][Next]_vars

\* the archive whose bytes were read at a position
OwnerAt(pos) ==
    LET c == CHOOSE c \in ReadCalls : c.pos = pos /\ c.res = "ok" IN c.h

\* the location a path names once its "." and ".." segments are resolved
\* lies in the directory tree below the prefix
Inside(prefix, path) ==
    LET loc == Clean(path)
    IN  \/ IsPrefixOf(prefix, loc)
        \/ loc \o <<"/">> = prefix

\* C11: every file that extraction writes, and every directory it creates
\* (MkdirAll of the working directory creates none), lies inside
\* _dump_/<display name of the owning archive>/, for every path a strategy
\* can produce, parent-directory segments included.
C11_WritesInsideDump ==
    \A f \in Range(fsops) :
      f.ok => \/ Inside(DumpPrefix(OwnerAt(f.pos)), f.path)
              \/ f.op = "MkdirAll" /\ Clean(f.path) = <<".">>

====
